---- MODULE Spec2Model ----
(***************************************************************************)
(* Storefront backend: checkout (create_checkout_session), the payment     *)
(* confirmation webhook (stripe_webhook), the status query (order_status)  *)
(* and the index page of shop/core/views.py, and the seed_products         *)
(* command, over the tables of shop/core/models.py.                        *)
(*                                                                         *)
(* The ledger (orders, items) is the committed database state.  A request  *)
(* handler is a process whose steps are the points where it touches the    *)
(* database or the payment provider; writes made inside transaction.atomic *)
(* become visible at the commit step.                                      *)
(***************************************************************************)
EXTENDS Integers, Sequences, FiniteSets, TLC

\* ------------------------------------------------------------------ bounds
NumCheckouts == 1      \* create_checkout_session requests racing the deliveries (Spec)
NumRivals == 2         \* concurrent create_checkout_session requests (SpecRivals)
NumWebhooks == 2       \* stripe_webhook deliveries (Spec)
NumQueries == 2        \* order_status requests (Spec)
MaxSessions == 2       \* distinct session ids the provider / uuid4 hands out
MaxCartLen == 2        \* lines of a cart (SpecCart)
MaxQty == 2            \* largest quantity of a cart line (SpecCart)
MaxProductId == 4      \* largest product id of a starting table (SpecSeed)
NumSeedRuns == 2       \* consecutive runs of seed_products (SpecSeed)

\* --------------------------------------------------------- program constants
ListLimit == 3         \* Product.objects.order_by('id')[:3]

STATUS_PENDING == "PENDING"
STATUS_PAID == "PAID"
STATUS_FAILED == "FAILED"
STATUS_CHOICES == {STATUS_PENDING, STATUS_PAID, STATUS_FAILED}

\* The three fixed products of the seeding command, in id order.
desired ==
  << [name |-> "Laptop", price_cents |-> 99999],
     [name |-> "Mouse", price_cents |-> 2999],
     [name |-> "Keyboard", price_cents |-> 7999] >>

\* A product row outside the fixed set, kept by the seeding command while an
\* order line references it.
ExtraProduct == [name |-> "Legacy", price_cents |-> 500]

\* The deployments: settings read by the views.
Deployments ==
  { [STRIPE_DEMO_MODE |-> FALSE, STRIPE_KEY_PRESENT |-> TRUE, STRIPE_WEBHOOK_SECRET |-> TRUE],
    [STRIPE_DEMO_MODE |-> FALSE, STRIPE_KEY_PRESENT |-> TRUE, STRIPE_WEBHOOK_SECRET |-> FALSE],
    [STRIPE_DEMO_MODE |-> TRUE, STRIPE_KEY_PRESENT |-> TRUE, STRIPE_WEBHOOK_SECRET |-> TRUE],
    [STRIPE_DEMO_MODE |-> FALSE, STRIPE_KEY_PRESENT |-> FALSE, STRIPE_WEBHOOK_SECRET |-> FALSE] }

\* ------------------------------------------------------------ JSON values
IntVal(n) == [type |-> "int", val |-> n]
StrVal == [type |-> "str", val |-> 0]
IsInt(v) == v.type = "int"

Line(p, q) == [product_id |-> p, quantity |-> q]

ProductIdInputs == {IntVal(n) : n \in 1..(ListLimit + 1)} \cup {StrVal}
QuantityInputs == {IntVal(n) : n \in (-1)..MaxQty} \cup {StrVal}
LineInputs == {Line(p, q) : p \in ProductIdInputs, q \in QuantityInputs}

SeqsUpTo(S, n) == UNION {[1..k -> S] : k \in 0..n}
Carts == SeqsUpTo(LineInputs, MaxCartLen)

\* The cart of the specifications that are about concurrency: one Laptop
\* and two Mice.
ScenarioCart == << Line(IntVal(1), IntVal(1)), Line(IntVal(2), IntVal(2)) >>
SmallCarts == {ScenarioCart}

\* -------------------------------------------------------------- session ids
StripeId(n) == [kind |-> "cs", n |-> n]
DemoId(n) == [kind |-> "demo", n |-> n]
NoSession == [kind |-> "none", n |-> 0]
StripeIds == {StripeId(n) : n \in 1..MaxSessions}
DemoIds == {DemoId(n) : n \in 1..MaxSessions}
SessionIds == StripeIds \cup DemoIds

\* ---------------------------------------------------------------- responses
Resp(s, b) == [status |-> s, body |-> b]
NoResp == Resp(0, "")
RespInvalidJson == Resp(400, "Invalid JSON")
RespNoItems == Resp(400, "No items in cart")
RespInvalidProductId == Resp(400, "Invalid product_id")
RespInvalidQuantity == Resp(400, "Invalid quantity")
RespProductNotFound == Resp(400, "Product not found")
RespSelectOne == Resp(400, "Please select at least one item")
RespStripeKeyInvalid == Resp(500, "Stripe API key is invalid")
RespStripeError == Resp(500, "Stripe error")
RespDuplicate == Resp(409, "Duplicate checkout session. Please retry.")
RespServerError == Resp(500, "Server error")
RespSession == Resp(200, "sessionId")
RespSessionDemo == Resp(200, "sessionId demo")
RespSuccess == Resp(200, "success")
RespNoSecret == Resp(500, "Webhook secret not configured")
RespInvalidPayload == Resp(400, "Invalid payload")
RespInvalidSignature == Resp(400, "Invalid signature")
RespMissingSessionId == Resp(400, "Missing session_id")
RespStatus(s) == Resp(200, s)

VARIABLES settings, products, orders, items, hist, co, wh, qs, seeds

vars == <<settings, products, orders, items, hist, co, wh, qs, seeds>>

\* ------------------------------------------------------------------ tables
\* Order rows are kept in insertion order; an order's id is its index.
OrderIds == 1..Len(orders)
OrderRow(sid, st, total) == [session_id |-> sid, status |-> st, total_cents |-> total]
ItemRow(o, p, q) == [order |-> o, product |-> p, quantity |-> q]

\* Order.objects.get(session_id=...): the matching ids (unique=True keeps it
\* to at most one).
OrdersBySession(sid) == {o \in OrderIds : orders[o].session_id = sid}

\* Faulty variant: the whitelist is every product row, not the first three.
allowed_by_id_All == products

\* Product.objects.order_by('id')[:3], as the dict allowed_by_id.
allowed_by_id ==
  [i \in {j \in DOMAIN products : Cardinality({k \in DOMAIN products : k < j}) < ListLimit}
     |-> products[i]]

\* ------------------------------------------------- create_checkout_session
OrderItem(p, q) == [product |-> p, quantity |-> q]
Validated(err, ois, total) == [error |-> err, order_items |-> ois, total_cents |-> total]

\* The loop over the cart's lines: the first offending line returns its
\* error; a zero quantity skips the line before its product is looked up.
RECURSIVE ValidateLoop(_, _, _, _)
ValidateLoop(cart, i, allowed, acc) ==
  IF i > Len(cart) THEN acc
  ELSE LET product_id == cart[i].product_id
           quantity == cart[i].quantity
       IN IF ~IsInt(product_id)
            THEN Validated(RespInvalidProductId, acc.order_items, acc.total_cents)
          ELSE IF ~IsInt(quantity) \/ quantity.val < 0
            THEN Validated(RespInvalidQuantity, acc.order_items, acc.total_cents)
          ELSE IF quantity.val = 0
            THEN ValidateLoop(cart, i + 1, allowed, acc)
          ELSE IF product_id.val \notin DOMAIN allowed
            THEN Validated(RespProductNotFound, acc.order_items, acc.total_cents)
          ELSE ValidateLoop(cart, i + 1, allowed,
                 Validated(NoResp,
                           Append(acc.order_items, OrderItem(product_id.val, quantity.val)),
                           acc.total_cents + allowed[product_id.val].price_cents * quantity.val))

\* Faulty variant: the check that a line with a positive quantity remains is dropped.
ValidateCart_NoEmptyCheck(cart, allowed) ==
  IF cart = <<>> THEN Validated(RespNoItems, <<>>, 0)
  ELSE ValidateLoop(cart, 1, allowed, Validated(NoResp, <<>>, 0))

\* Faulty variant: the check that a positive-quantity line remains is made
\* before the lines are examined.
ValidateCart_EmptyFirst(cart, allowed) ==
  IF cart = <<>> THEN Validated(RespNoItems, <<>>, 0)
  ELSE IF \A i \in DOMAIN cart : ~(IsInt(cart[i].quantity) /\ cart[i].quantity.val > 0)
    THEN Validated(RespSelectOne, <<>>, 0)
  ELSE ValidateLoop(cart, 1, allowed, Validated(NoResp, <<>>, 0))

\* Lines 75-123: the response of a rejected cart, or NoResp with the
\* collected order_items and total_cents.
ValidateCart(cart, allowed) ==
  IF cart = <<>> THEN Validated(RespNoItems, <<>>, 0)
  ELSE LET r == ValidateLoop(cart, 1, allowed, Validated(NoResp, <<>>, 0))
       IN IF r.error # NoResp THEN r
          ELSE IF r.order_items = <<>> THEN Validated(RespSelectOne, <<>>, 0)
          ELSE r

\* Faulty variant: a missing provider key does not select the demo branch.
DemoConfigured_FlagOnly == settings.STRIPE_DEMO_MODE

\* Line 126: the demo branch is taken.
DemoConfigured == settings.STRIPE_DEMO_MODE \/ ~settings.STRIPE_KEY_PRESENT

\* "calls" counts the invocations of stripe.checkout.Session.create made
\* for the request; "malformed", its body was not JSON.
CoIdle == [pc |-> "idle", cart |-> <<>>, order_items |-> <<>>, total_cents |-> 0,
           session |-> NoSession, collided |-> FALSE, calls |-> 0, malformed |-> FALSE,
           resp |-> NoResp]

\* Lines 74, 176-177: json.loads raises JSONDecodeError on a body that is
\* not JSON.
RejectBody(c) ==
  /\ co[c].pc = "idle"
  /\ co' = [co EXCEPT ![c].pc = "done", ![c].malformed = TRUE, ![c].resp = RespInvalidJson]
  /\ UNCHANGED <<settings, products, orders, items, hist, wh, qs, seeds>>

\* The request arrives with a cart; the view parses and validates it and
\* either answers 400 or goes on to the demo branch or the provider call.
Validate(c, cart) ==
  /\ co[c].pc = "idle"
  /\ LET r == ValidateCart(cart, allowed_by_id)
     IN co' = [co EXCEPT ![c] =
                 IF r.error # NoResp
                   THEN [@ EXCEPT !.pc = "done", !.cart = cart, !.resp = r.error]
                   ELSE [@ EXCEPT !.pc = IF DemoConfigured THEN "demo" ELSE "call",
                                  !.cart = cart,
                                  !.order_items = r.order_items,
                                  !.total_cents = r.total_cents]]
  /\ UNCHANGED <<settings, products, orders, items, hist, wh, qs, seeds>>

\* stripe.checkout.Session.create returns a session with some id.
SessionCreated(c, sid) ==
  /\ co[c].pc = "call"
  /\ co' = [co EXCEPT ![c].pc = "persist", ![c].session = sid, ![c].calls = @ + 1]
  /\ UNCHANGED <<settings, products, orders, items, hist, wh, qs, seeds>>

\* Faulty variant: the order is written before the provider answers and
\* stays when the call fails.
SessionFailed_Writes(c, resp) ==
  /\ co[c].pc = "call"
  /\ co' = [co EXCEPT ![c].pc = "done", ![c].resp = resp, ![c].calls = @ + 1]
  /\ orders' = Append(orders, OrderRow(NoSession, STATUS_PENDING, co[c].total_cents))
  /\ hist' = Append(hist, <<STATUS_PENDING>>)
  /\ UNCHANGED <<settings, products, items, wh, qs, seeds>>

\* stripe.checkout.Session.create raises AuthenticationError or another
\* StripeError: a 500 and no local write.
SessionFailed(c, resp) ==
  /\ co[c].pc = "call"
  /\ co' = [co EXCEPT ![c].pc = "done", ![c].resp = resp, ![c].calls = @ + 1]
  /\ UNCHANGED <<settings, products, orders, items, hist, wh, qs, seeds>>

\* The constraints the INSERTs can violate: Order.session_id unique, and
\* OrderItem unique_together (order, product).
SessionTaken(sid) == OrdersBySession(sid) # {}
\* Faulty variant: OrderItem has no unique_together constraint.
RepeatsProduct_Unchecked(ois) == FALSE

RepeatsProduct(ois) ==
  \E i, j \in DOMAIN ois : i # j /\ ois[i].product = ois[j].product
IntegrityError(sid, ois) == SessionTaken(sid) \/ RepeatsProduct(ois)

\* with transaction.atomic(): Order.objects.create + OrderItem bulk_create,
\* committed as one unit.
CommitOrder(sid, st, total, ois) ==
  /\ orders' = Append(orders, OrderRow(sid, st, total))
  /\ items' = items \cup {ItemRow(Len(orders) + 1, ois[i].product, ois[i].quantity) : i \in DOMAIN ois}
  /\ hist' = Append(hist, <<st>>)

\* Faulty variant: the provider branch writes the order PAID, as the demo
\* branch does.
Persist_Paid(c) ==
  /\ co[c].pc = "persist"
  /\ IF IntegrityError(co[c].session, co[c].order_items)
       THEN /\ co' = [co EXCEPT ![c].pc = "done", ![c].resp = RespDuplicate,
                                ![c].collided = SessionTaken(co[c].session)]
            /\ UNCHANGED <<orders, items, hist>>
       ELSE /\ CommitOrder(co[c].session, STATUS_PAID, co[c].total_cents, co[c].order_items)
            /\ co' = [co EXCEPT ![c].pc = "done", ![c].resp = RespSession]
  /\ UNCHANGED <<settings, products, wh, qs, seeds>>

\* Lines 159-174: the order is written PENDING under the provider's session
\* id; an IntegrityError rolls back and answers 409.
Persist(c) ==
  /\ co[c].pc = "persist"
  /\ IF IntegrityError(co[c].session, co[c].order_items)
       THEN /\ co' = [co EXCEPT ![c].pc = "done", ![c].resp = RespDuplicate,
                                ![c].collided = SessionTaken(co[c].session)]
            /\ UNCHANGED <<orders, items, hist>>
       ELSE /\ CommitOrder(co[c].session, STATUS_PENDING, co[c].total_cents, co[c].order_items)
            /\ co' = [co EXCEPT ![c].pc = "done", ![c].resp = RespSession]
  /\ UNCHANGED <<settings, products, wh, qs, seeds>>

\* Lines 126-139: demo mode draws a uuid4 session id and writes the order
\* PAID; an IntegrityError is not caught here and reaches the outer
\* "except Exception" (500).
PersistDemo(c, sid) ==
  /\ co[c].pc = "demo"
  /\ IF IntegrityError(sid, co[c].order_items)
       THEN /\ co' = [co EXCEPT ![c].pc = "done", ![c].session = sid,
                                ![c].resp = RespServerError,
                                ![c].collided = SessionTaken(sid)]
            /\ UNCHANGED <<orders, items, hist>>
       ELSE /\ CommitOrder(sid, STATUS_PAID, co[c].total_cents, co[c].order_items)
            /\ co' = [co EXCEPT ![c].pc = "done", ![c].session = sid,
                                ![c].resp = RespSessionDemo]
  /\ UNCHANGED <<settings, products, wh, qs, seeds>>

\* ------------------------------------ the atomic block, statement by statement
\* Persist and PersistDemo take the block of lines 160-170 and 129-138 as
\* one step.  The actions below take it one statement at a time: the order
\* INSERT, the line-item INSERTs, the commit.  What the block has written
\* stays in the request (session, order_items, total_cents) and enters the
\* ledger, which is what every other request reads, when the block commits.
InBlock(sid) ==
  {d \in DOMAIN co : co[d].pc \in {"tx_order", "tx_items"} /\ co[d].session = sid}

\* The response when the block raises IntegrityError: caught in the provider
\* branch (line 171), not in the demo branch.
IntegrityResp == IF DemoConfigured THEN RespServerError ELSE RespDuplicate

\* Faulty variant: no atomic block, the order INSERT is committed on its own.
TxInsertOrder_Autocommit(c, sid) ==
  /\ co[c].pc \in {"persist", "demo"}
  /\ co[c].pc = "persist" => sid = co[c].session
  /\ co[c].pc = "demo" => sid \in DemoIds
  /\ InBlock(sid) = {}
  /\ ~SessionTaken(sid)
  /\ co' = [co EXCEPT ![c].pc = "tx_order", ![c].session = sid]
  /\ orders' = Append(orders, OrderRow(sid, IF DemoConfigured THEN STATUS_PAID ELSE STATUS_PENDING,
                                       co[c].total_cents))
  /\ hist' = Append(hist, <<IF DemoConfigured THEN STATUS_PAID ELSE STATUS_PENDING>>)
  /\ UNCHANGED <<settings, products, items, wh, qs, seeds>>

\* Order.objects.create (lines 130, 162): the INSERT waits for an uncommitted
\* INSERT of the same session_id, and raises IntegrityError if a committed
\* row has it.  sid is the provider's session id, or the uuid4 drawn at
\* line 128.
TxInsertOrder(c, sid) ==
  /\ co[c].pc \in {"persist", "demo"}
  /\ co[c].pc = "persist" => sid = co[c].session
  /\ co[c].pc = "demo" => sid \in DemoIds
  /\ InBlock(sid) = {}
  /\ co' = [co EXCEPT ![c] =
       IF SessionTaken(sid)
         THEN [@ EXCEPT !.pc = "done", !.session = sid, !.resp = IntegrityResp,
                        !.collided = TRUE]
         ELSE [@ EXCEPT !.pc = "tx_order", !.session = sid]]
  /\ UNCHANGED <<settings, products, orders, items, hist, wh, qs, seeds>>

\* OrderItem.objects.bulk_create (lines 135, 167): a product repeated in
\* order_items violates unique_together, and the block rolls back.
TxInsertItems(c) ==
  /\ co[c].pc = "tx_order"
  /\ co' = [co EXCEPT ![c] =
       IF RepeatsProduct(co[c].order_items)
         THEN [@ EXCEPT !.pc = "done", !.resp = IntegrityResp]
         ELSE [@ EXCEPT !.pc = "tx_items"]]
  /\ UNCHANGED <<settings, products, orders, items, hist, wh, qs, seeds>>

\* The end of the block: the order and its line items are committed
\* together, and the view returns the session id (lines 139, 174).
TxCommit(c) ==
  /\ co[c].pc = "tx_items"
  /\ CommitOrder(co[c].session, IF DemoConfigured THEN STATUS_PAID ELSE STATUS_PENDING,
                 co[c].total_cents, co[c].order_items)
  /\ co' = [co EXCEPT ![c].pc = "done",
                      ![c].resp = IF DemoConfigured THEN RespSessionDemo ELSE RespSession]
  /\ UNCHANGED <<settings, products, wh, qs, seeds>>

\* ----------------------------------------------------------- stripe_webhook
COMPLETED == "checkout.session.completed"
OTHER_EVENT == "payment_intent.succeeded"

Event(t, n, sig, parse) == [type |-> t, session |-> StripeId(n), sig_ok |-> sig, parse_ok |-> parse]
NoEvent == [type |-> "", session |-> NoSession, sig_ok |-> FALSE, parse_ok |-> FALSE]

\* What the provider, or anyone else, may post: a signed event of either
\* type, or a completion event whose signature or body is bad.
EventInputs ==
  {Event(t, n, TRUE, TRUE) : t \in {COMPLETED, OTHER_EVENT}, n \in 1..MaxSessions}
  \cup {Event(COMPLETED, n, FALSE, TRUE) : n \in 1..MaxSessions}
  \cup {Event(COMPLETED, n, TRUE, FALSE) : n \in 1..MaxSessions}

\* Faulty variant: the event is taken from the body without verification.
ConstructEventError_Skip(ev) == NoResp

\* stripe.Webhook.construct_event raises ValueError for a body it cannot
\* parse and SignatureVerificationError for a signature that does not match.
ConstructEventError(ev) ==
  IF ~ev.parse_ok THEN RespInvalidPayload
  ELSE IF ~ev.sig_ok THEN RespInvalidSignature
  ELSE NoResp

WhIdle == [pc |-> "idle", ev |-> NoEvent, order |-> 0, status |-> "",
           found |-> FALSE, wrote |-> FALSE, raced |-> FALSE, issued |-> FALSE,
           resp |-> NoResp]

\* History of a delivery: "raced", it arrived while another delivery for its
\* session was being handled; "issued", a checkout's provider call had
\* returned its session before it arrived.
Issued(sid) == \E c \in DOMAIN co : co[c].session = sid
InFlight(sid) == {v \in DOMAIN wh : wh[v].pc \notin {"idle", "done"} /\ wh[v].ev.session = sid}

\* Faulty variant: every verified event is handled as a completion.
Receive_AnyType(w, ev) ==
  /\ wh[w].pc = "idle"
  /\ wh' = [wh EXCEPT ![w] =
       IF ~settings.STRIPE_WEBHOOK_SECRET
         THEN [@ EXCEPT !.pc = "done", !.ev = ev, !.resp = RespNoSecret]
       ELSE IF ConstructEventError(ev) # NoResp
         THEN [@ EXCEPT !.pc = "done", !.ev = ev, !.resp = ConstructEventError(ev)]
       ELSE [@ EXCEPT !.pc = "lookup", !.ev = ev, !.raced = InFlight(ev.session) # {},
                      !.issued = Issued(ev.session)]]
  /\ UNCHANGED <<settings, products, orders, items, hist, co, qs, seeds>>

\* Lines 205-224: secret check, signature and payload check, event type.
Receive(w, ev) ==
  /\ wh[w].pc = "idle"
  /\ wh' = [wh EXCEPT ![w] =
       IF ~settings.STRIPE_WEBHOOK_SECRET
         THEN [@ EXCEPT !.pc = "done", !.ev = ev, !.resp = RespNoSecret]
       ELSE IF ConstructEventError(ev) # NoResp
         THEN [@ EXCEPT !.pc = "done", !.ev = ev, !.resp = ConstructEventError(ev)]
       ELSE IF ev.type # COMPLETED
         THEN [@ EXCEPT !.pc = "done", !.ev = ev, !.resp = RespSuccess]
       ELSE [@ EXCEPT !.pc = "lookup", !.ev = ev, !.raced = InFlight(ev.session) # {},
                      !.issued = Issued(ev.session)]]
  /\ UNCHANGED <<settings, products, orders, items, hist, co, qs, seeds>>

\* The transactions that hold the row lock of order o: between their
\* select_for_update and the end of their atomic block.
LockHolders(o) == {v \in DOMAIN wh : wh[v].pc \in {"loaded", "save", "saved"} /\ wh[v].order = o}

\* Faulty variant: a plain get() that takes no row lock.
RowAvailable_NoLock(w, o) == TRUE

\* select_for_update(): the SELECT returns once no other transaction holds
\* the row.
RowAvailable(w, o) == LockHolders(o) \ {w} = {}

\* Faulty variant: an unknown session is answered with an error the provider retries.
LookupMissing_Error(w) ==
  /\ wh[w].pc = "lookup"
  /\ OrdersBySession(wh[w].ev.session) = {}
  /\ wh' = [wh EXCEPT ![w].pc = "done", ![w].resp = RespServerError]
  /\ UNCHANGED <<settings, products, orders, items, hist, co, qs, seeds>>

\* Line 228 with no matching row: Order.DoesNotExist, answered with success.
LookupMissing(w) ==
  /\ wh[w].pc = "lookup"
  /\ OrdersBySession(wh[w].ev.session) = {}
  /\ wh' = [wh EXCEPT ![w].pc = "done", ![w].resp = RespSuccess]
  /\ UNCHANGED <<settings, products, orders, items, hist, co, qs, seeds>>

\* Line 228 with a matching row: the row is locked and loaded.
LookupLocked(w) ==
  /\ wh[w].pc = "lookup"
  /\ \E o \in OrdersBySession(wh[w].ev.session) :
       /\ RowAvailable(w, o)
       /\ wh' = [wh EXCEPT ![w].pc = "loaded", ![w].order = o,
                           ![w].status = orders[o].status, ![w].found = TRUE]
  /\ UNCHANGED <<settings, products, orders, items, hist, co, qs, seeds>>

\* Faulty variant: the idempotency check is dropped.
AlreadyProcessed_Never(st) == FALSE

\* Line 231: the status that ends the handler without a write.
AlreadyProcessed(st) == st = STATUS_PAID

\* Lines 231-232: an order already PAID ends the transaction with success.
CheckStatus(w) ==
  /\ wh[w].pc = "loaded"
  /\ wh' = [wh EXCEPT ![w] =
       IF AlreadyProcessed(wh[w].status)
         THEN [@ EXCEPT !.pc = "done", !.resp = RespSuccess]
         ELSE [@ EXCEPT !.pc = "save"]]
  /\ UNCHANGED <<settings, products, orders, items, hist, co, qs, seeds>>

\* Lines 234-235: order.status = PAID; order.save(update_fields=['status']),
\* an UPDATE inside the transaction.
Save(w) ==
  /\ wh[w].pc = "save"
  /\ wh' = [wh EXCEPT ![w].pc = "saved", ![w].status = STATUS_PAID, ![w].wrote = TRUE]
  /\ UNCHANGED <<settings, products, orders, items, hist, co, qs, seeds>>

\* Faulty variant: the handler answers success but its UPDATE is lost.
Commit_Lost(w) ==
  /\ wh[w].pc = "saved"
  /\ wh' = [wh EXCEPT ![w].pc = "done", ![w].resp = RespSuccess]
  /\ UNCHANGED <<settings, products, orders, items, hist, co, qs, seeds>>

\* Faulty variant: the UPDATE has no WHERE clause and marks every order PAID.
Commit_AllRows(w) ==
  /\ wh[w].pc = "saved"
  /\ orders' = [o \in OrderIds |-> [orders[o] EXCEPT !.status = wh[w].status]]
  /\ hist' = [o \in OrderIds |-> Append(hist[o], wh[w].status)]
  /\ wh' = [wh EXCEPT ![w].pc = "done", ![w].resp = RespSuccess]
  /\ UNCHANGED <<settings, products, items, co, qs, seeds>>

\* The atomic block ends: the UPDATE commits, the lock is released, and the
\* handler answers success (line 241).
Commit(w) ==
  /\ wh[w].pc = "saved"
  /\ orders' = [orders EXCEPT ![wh[w].order].status = wh[w].status]
  /\ hist' = [hist EXCEPT ![wh[w].order] = Append(@, wh[w].status)]
  /\ wh' = [wh EXCEPT ![w].pc = "done", ![w].resp = RespSuccess]
  /\ UNCHANGED <<settings, products, items, co, qs, seeds>>

\* ------------------------------------------------------------- order_status
QIdle == [pc |-> "idle", session_id |-> NoSession, resp |-> NoResp]

\* Faulty variant: an unknown session id is reported as an error.
StatusResponse_NotFound(sid) ==
  IF sid = NoSession THEN RespMissingSessionId
  ELSE IF OrdersBySession(sid) = {} THEN Resp(404, "Order not found")
  ELSE RespStatus(orders[CHOOSE o \in OrdersBySession(sid) : TRUE].status)

\* The status a lookup by session id reports.
StatusResponse(sid) ==
  IF sid = NoSession THEN RespMissingSessionId
  ELSE IF OrdersBySession(sid) = {} THEN RespStatus(STATUS_PENDING)
  ELSE RespStatus(orders[CHOOSE o \in OrdersBySession(sid) : TRUE].status)

\* Lines 251-261; NoSession is the absent or empty query parameter.
OrderStatus(q, sid) ==
  /\ qs[q].pc = "idle"
  /\ qs' = [qs EXCEPT ![q] = [pc |-> "done", session_id |-> sid, resp |-> StatusResponse(sid)]]
  /\ UNCHANGED <<settings, products, orders, items, hist, co, wh, seeds>>

\* -------------------------------------------------------------------- index
\* "concurrent": a checkout was inside its atomic block when the page was
\* rendered.
IndexIdle == [pc |-> "idle", products |-> <<>>, orders |-> {}, concurrent |-> FALSE]

\* Lines 29-45: the first three products and the PAID orders, each with its
\* line items (prefetch_related('items__product')).
Index(q) ==
  /\ qs[q].pc = "idle"
  /\ qs' = [qs EXCEPT ![q] =
       [pc |-> "done",
        products |-> allowed_by_id,
        orders |-> {[session_id |-> orders[o].session_id,
                     total_cents |-> orders[o].total_cents,
                     items |-> {OrderItem(it.product, it.quantity) :
                                  it \in {x \in items : x.order = o}}] :
                      o \in {n \in OrderIds : orders[n].status = STATUS_PAID}},
        concurrent |-> \E c \in DOMAIN co : co[c].pc \in {"tx_order", "tx_items"}]]
  /\ UNCHANGED <<settings, products, orders, items, hist, co, wh, seeds>>

\* ------------------------------------------------ the abandoned/cancelled path
\* PENDING -> FAILED: the transition the data model names and no view
\* performs; an UPDATE of a row no transaction holds.
MarkFailed(o) ==
  /\ o \in OrderIds
  /\ orders[o].status = STATUS_PENDING
  /\ LockHolders(o) = {}
  /\ orders' = [orders EXCEPT ![o].status = STATUS_FAILED]
  /\ hist' = [hist EXCEPT ![o] = Append(@, STATUS_FAILED)]
  /\ UNCHANGED <<settings, products, items, co, wh, qs, seeds>>

\* ------------------------------------------------------------ seed_products
\* The product table is a function from the ids in use to rows.
desired_names == {desired[i].name : i \in DOMAIN desired}
referenced_ids == {it.product : it \in items}

MaxId(P) == IF DOMAIN P = {} THEN 0 ELSE CHOOSE n \in DOMAIN P : \A k \in DOMAIN P : k <= n

\* Product.objects.update_or_create(name=..., defaults={'price_cents': ...}):
\* the row with the name gets the price; with no such row one is inserted
\* under a fresh id, above every id in use.
UpdateOrCreate(P, d) ==
  IF \E p \in DOMAIN P : P[p].name = d.name
    THEN [p \in DOMAIN P |-> IF P[p].name = d.name THEN [P[p] EXCEPT !.price_cents = d.price_cents]
                             ELSE P[p]]
    ELSE [p \in DOMAIN P \cup {MaxId(P) + 1} |-> IF p \in DOMAIN P THEN P[p] ELSE d]

\* Lines 35-41: the loop over desired, from its i-th entry on.
RECURSIVE Upserted(_, _)
Upserted(P, i) ==
  IF i > Len(desired) THEN P ELSE Upserted(UpdateOrCreate(P, desired[i]), i + 1)

\* Faulty variant: every product outside the fixed set is deleted.
DeleteExtras_All(P, refs) ==
  [p \in {q \in DOMAIN P : P[q].name \in desired_names} |-> P[p]]

\* Lines 45-51: exclude(name__in=desired_names).exclude(id__in=referenced_ids)
\* .delete(); what stays is the fixed set and the referenced products.
DeleteExtras(P, refs) ==
  [p \in {q \in DOMAIN P : P[q].name \in desired_names \/ q \in refs} |-> P[p]]

\* One run of the command: a single atomic block.  seeds records the table
\* each run found.
Seed ==
  /\ Len(seeds) < NumSeedRuns
  /\ products' = DeleteExtras(Upserted(products, 1), referenced_ids)
  /\ seeds' = Append(seeds, products)
  /\ UNCHANGED <<settings, orders, items, hist, co, wh, qs>>

\* ------------------------------------------------------------ specifications
SeededProducts == [i \in 1..Len(desired) |-> desired[i]]
ProductTables ==
  {SeededProducts,
   [i \in 1..(Len(desired) + 1) |-> IF i <= Len(desired) THEN desired[i] ELSE ExtraProduct]}

\* Requests are numbered in their order of arrival: the next request to
\* arrive takes the first free handler.
NextArrival(procs) ==
  {p \in DOMAIN procs : procs[p].pc = "idle" /\ \A r \in DOMAIN procs : r < p => procs[r].pc # "idle"}

\* The signed completion events of the provider's sessions.
CompletionEvents == {Event(COMPLETED, n, TRUE, TRUE) : n \in 1..MaxSessions}

EmptyLedger ==
  /\ orders = <<>>
  /\ items = {}
  /\ hist = <<>>

\* Spec: concurrent checkouts and deliveries of completion events.
Init ==
  /\ settings \in Deployments
  /\ products = SeededProducts
  /\ EmptyLedger
  /\ co = [c \in 1..NumCheckouts |-> CoIdle]
  /\ wh = [w \in 1..NumWebhooks |-> WhIdle]
  /\ qs = <<>>
  /\ seeds = <<>>

Next ==
  \/ \E c \in NextArrival(co) : \E cart \in SmallCarts : Validate(c, cart)
  \/ \E c \in DOMAIN co : \E sid \in StripeIds : SessionCreated(c, sid)
  \/ \E c \in DOMAIN co : \E r \in {RespStripeKeyInvalid, RespStripeError} : SessionFailed(c, r)
  \/ \E c \in DOMAIN co : Persist(c)
  \/ \E c \in DOMAIN co : \E sid \in DemoIds : PersistDemo(c, sid)
  \/ \E w \in NextArrival(wh) : \E ev \in CompletionEvents : Receive(w, ev)
  \/ \E w \in DOMAIN wh : LookupMissing(w)
  \/ \E w \in DOMAIN wh : LookupLocked(w)
  \/ \E w \in DOMAIN wh : CheckStatus(w)
  \/ \E w \in DOMAIN wh : Save(w)
  \/ \E w \in DOMAIN wh : Commit(w)

Spec == Init /\ [][Next]_vars


\* SpecFailed: one checkout and the deliveries, with the abandoned/cancelled
\* path that marks a PENDING order FAILED.
InitFailed ==
  /\ settings \in Deployments
  /\ products = SeededProducts
  /\ EmptyLedger
  /\ co = [c \in {1} |-> CoIdle]
  /\ wh = [w \in 1..NumWebhooks |-> WhIdle]
  /\ qs = <<>>
  /\ seeds = <<>>

NextFailed ==
  \/ Next
  \/ \E o \in OrderIds : MarkFailed(o)

SpecFailed == InitFailed /\ [][NextFailed]_vars

\* SpecQuery: status queries beside one checkout and one delivery of any
\* event, signed or not.
InitQuery ==
  /\ settings \in Deployments
  /\ products = SeededProducts
  /\ EmptyLedger
  /\ co = [c \in {1} |-> CoIdle]
  /\ wh = [w \in {1} |-> WhIdle]
  /\ qs = [q \in 1..NumQueries |-> QIdle]
  /\ seeds = <<>>

NextQuery ==
  \/ Next
  \/ \E w \in NextArrival(wh) : \E ev \in EventInputs \ CompletionEvents : Receive(w, ev)
  \/ \E q \in NextArrival(qs) : \E sid \in SessionIds \cup {NoSession} : OrderStatus(q, sid)

SpecQuery == InitQuery /\ [][NextQuery]_vars

\* SpecRivals: concurrent checkouts, whose session ids may collide.
InitRivals ==
  /\ settings \in Deployments
  /\ products = SeededProducts
  /\ EmptyLedger
  /\ co = [c \in 1..NumRivals |-> CoIdle]
  /\ wh = <<>>
  /\ qs = <<>>
  /\ seeds = <<>>

NextRivals ==
  \/ \E c \in NextArrival(co) : \E cart \in SmallCarts : Validate(c, cart)
  \/ \E c \in DOMAIN co : \E sid \in StripeIds : SessionCreated(c, sid)
  \/ \E c \in DOMAIN co : \E r \in {RespStripeKeyInvalid, RespStripeError} : SessionFailed(c, r)
  \/ \E c \in DOMAIN co : Persist(c)
  \/ \E c \in DOMAIN co : \E sid \in DemoIds : PersistDemo(c, sid)

SpecRivals == InitRivals /\ [][NextRivals]_vars

\* SpecCart: one checkout of any cart, on an empty ledger or after an
\* earlier checkout of the scenario cart under session 1.
EarlierSession == IF DemoConfigured THEN DemoId(1) ELSE StripeId(1)
EarlierStatus == IF DemoConfigured THEN STATUS_PAID ELSE STATUS_PENDING
EarlierLedger ==
  LET r == ValidateCart(ScenarioCart, allowed_by_id)
  IN /\ orders = << OrderRow(EarlierSession, EarlierStatus, r.total_cents) >>
     /\ items = {ItemRow(1, r.order_items[i].product, r.order_items[i].quantity) :
                   i \in DOMAIN r.order_items}
     /\ hist = << <<EarlierStatus>> >>

InitCart ==
  /\ settings \in Deployments
  /\ products \in ProductTables
  /\ EmptyLedger \/ EarlierLedger
  /\ co = [c \in {1} |-> CoIdle]
  /\ wh = <<>>
  /\ qs = <<>>
  /\ seeds = <<>>

NextCart ==
  \/ \E c \in NextArrival(co) : RejectBody(c)
  \/ \E c \in NextArrival(co) : \E cart \in Carts : Validate(c, cart)
  \/ \E c \in DOMAIN co : \E sid \in StripeIds : SessionCreated(c, sid)
  \/ \E c \in DOMAIN co : \E r \in {RespStripeKeyInvalid, RespStripeError} : SessionFailed(c, r)
  \/ \E c \in DOMAIN co : Persist(c)
  \/ \E c \in DOMAIN co : \E sid \in DemoIds : PersistDemo(c, sid)

SpecCart == InitCart /\ [][NextCart]_vars

\* SpecFrame: the checkouts and deliveries of Spec, on a ledger that holds
\* an earlier order.
InitFrame ==
  /\ settings \in Deployments
  /\ products = SeededProducts
  /\ EarlierLedger
  /\ co = [c \in 1..NumCheckouts |-> CoIdle]
  /\ wh = [w \in 1..NumWebhooks |-> WhIdle]
  /\ qs = <<>>
  /\ seeds = <<>>

SpecFrame == InitFrame /\ [][Next]_vars

\* SpecSeed: runs of the seeding command on any table of up to MaxProductId
\* rows: fixed products (each name on at most one row, as the command
\* leaves them), one with a stale price, and extra products; an order may
\* reference one of the rows.
StaleProduct == [name |-> desired[1].name, price_cents |-> ExtraProduct.price_cents]
RowInputs == {desired[i] : i \in DOMAIN desired} \cup {StaleProduct, ExtraProduct}
StartTables ==
  {P \in UNION {[D -> RowInputs] : D \in SUBSET (1..MaxProductId)} :
     \A p, q \in DOMAIN P : (P[p].name = P[q].name /\ P[p].name \in desired_names) => p = q}

ReferencingLedger(p) ==
  /\ orders = << OrderRow(StripeId(1), STATUS_PAID, products[p].price_cents) >>
  /\ items = {ItemRow(1, p, 1)}
  /\ hist = << <<STATUS_PENDING, STATUS_PAID>> >>

InitSeed ==
  /\ settings \in {d \in Deployments : ~d.STRIPE_DEMO_MODE /\ d.STRIPE_KEY_PRESENT
                                       /\ d.STRIPE_WEBHOOK_SECRET}
  /\ products \in StartTables
  /\ EmptyLedger \/ \E p \in DOMAIN products : ReferencingLedger(p)
  /\ co = <<>>
  /\ wh = <<>>
  /\ qs = <<>>
  /\ seeds = <<>>

NextSeed == Seed

SpecSeed == InitSeed /\ [][NextSeed]_vars

\* SpecAtomic: concurrent checkouts whose atomic block runs statement by
\* statement, beside a request for the index page.
RepeatCart == << Line(IntVal(1), IntVal(1)), Line(IntVal(1), IntVal(2)) >>
AtomicCarts == {ScenarioCart, RepeatCart}

InitAtomic ==
  /\ settings \in Deployments
  /\ products = SeededProducts
  /\ EmptyLedger
  /\ co = [c \in 1..NumRivals |-> CoIdle]
  /\ wh = <<>>
  /\ qs = [q \in {1} |-> IndexIdle]
  /\ seeds = <<>>

NextAtomic ==
  \/ \E c \in NextArrival(co) : \E cart \in AtomicCarts : Validate(c, cart)
  \/ \E c \in DOMAIN co : \E sid \in StripeIds : SessionCreated(c, sid)
  \/ \E c \in DOMAIN co : \E r \in {RespStripeKeyInvalid, RespStripeError} : SessionFailed(c, r)
  \/ \E c \in DOMAIN co : \E sid \in SessionIds : TxInsertOrder(c, sid)
  \/ \E c \in DOMAIN co : TxInsertItems(c)
  \/ \E c \in DOMAIN co : TxCommit(c)
  \/ \E q \in DOMAIN qs : Index(q)

SpecAtomic == InitAtomic /\ [][NextAtomic]_vars

\* ======================================================================
\* Properties
\* ======================================================================
\* A delivery that passed the secret, signature and payload checks with a
\* completion event.
Verified(w) ==
  /\ wh[w].pc # "idle"
  /\ settings.STRIPE_WEBHOOK_SECRET
  /\ ConstructEventError(wh[w].ev) = NoResp
  /\ wh[w].ev.type = COMPLETED
Returned(w) == wh[w].pc = "done"

\* The deliveries that loaded order o, and those among them that wrote it.
Loaded(o) == {w \in DOMAIN wh : wh[w].found /\ wh[w].order = o}
Writers(o) == {w \in Loaded(o) : wh[w].wrote}

\* No request is being handled.
Quiescent ==
  /\ \A c \in DOMAIN co : co[c].pc \in {"idle", "done"}
  /\ \A w \in DOMAIN wh : wh[w].pc \in {"idle", "done"}

\* C1: however many times the same completion event is delivered for an
\* order created PENDING, the order's committed status history is PENDING,
\* then PAID, with exactly one write of PAID once a delivery that loaded the
\* order has returned; every such delivery is answered with success and
\* leaves the order PAID.
C1_DuplicateDeliveriesTransitionOnce ==
  \A o \in OrderIds :
    hist[o][1] = STATUS_PENDING =>
      /\ hist[o] \in {<<STATUS_PENDING>>, <<STATUS_PENDING, STATUS_PAID>>}
      /\ Cardinality(Writers(o)) <= 1
      /\ \A w \in Loaded(o) :
           Returned(w) =>
             /\ wh[w].resp = RespSuccess
             /\ hist[o] = <<STATUS_PENDING, STATUS_PAID>>
             /\ orders[o].status = STATUS_PAID
             /\ Cardinality(Writers(o)) = 1

\* C1 witness: two deliveries of the event have returned for an order that
\* was PENDING; the first wrote PAID, the second found it PAID.
C1_Witness ==
  \E o \in OrderIds : \E w1, w2 \in Loaded(o) :
    /\ w1 # w2
    /\ Returned(w1) /\ Returned(w2)
    /\ wh[w1].wrote /\ ~wh[w2].wrote
    /\ hist[o] = <<STATUS_PENDING, STATUS_PAID>>

\* C2: concurrent deliveries for one session are serialized by the row
\* lock: at most one holds the order at a time, the status a holder acts on
\* is the committed one, at most one of them writes, and each verified
\* delivery that returns is answered with success.
C2_ConcurrentDeliveriesSerialized ==
  /\ \A o \in OrderIds : Cardinality(LockHolders(o)) <= 1
  /\ \A w \in DOMAIN wh :
       wh[w].pc \in {"loaded", "save"} => wh[w].status = orders[wh[w].order].status
  /\ \A w1, w2 \in DOMAIN wh :
       (w1 # w2 /\ wh[w1].ev.session = wh[w2].ev.session) => ~(wh[w1].wrote /\ wh[w2].wrote)
  /\ \A w \in DOMAIN wh : (Verified(w) /\ Returned(w)) => wh[w].resp = RespSuccess

\* C2 witness: a delivery arrived while another one for the same session was
\* in progress; both returned success and only one of them wrote.
C2_Witness ==
  \E w1, w2 \in DOMAIN wh :
    /\ w1 # w2
    /\ wh[w1].ev.session = wh[w2].ev.session
    /\ wh[w2].raced
    /\ wh[w1].found /\ wh[w2].found
    /\ Returned(w1) /\ Returned(w2)
    /\ wh[w1].resp = RespSuccess /\ wh[w2].resp = RespSuccess
    /\ Cardinality({w \in {w1, w2} : wh[w].wrote}) = 1

\* C3 as stated: once no request is in progress, a checkout whose provider
\* session was created and for which a completion event was delivered and
\* acknowledged has its order PAID.
C3_Original_DeliveredImpliesPaid ==
  Quiescent =>
    \A c \in DOMAIN co :
      (co[c].session \in StripeIds
       /\ \E w \in DOMAIN wh :
            Verified(w) /\ Returned(w) /\ wh[w].issued /\ wh[w].ev.session = co[c].session)
      => \E o \in OrdersBySession(co[c].session) : orders[o].status = STATUS_PAID

\* C3 amended: a completion event delivered once the order row is committed
\* (the delivery's lookup finds it) leaves the order PAID when it returns,
\* and an order that was PAID stays PAID, however many deliveries there are
\* and wherever they fall; a delivery whose lookup precedes the commit of
\* the checkout's persistence step is acknowledged without effect.
C3_DeliveredAfterCommitImpliesPaid ==
  /\ \A w \in DOMAIN wh :
       (Returned(w) /\ wh[w].found) => orders[wh[w].order].status = STATUS_PAID
  /\ \A o \in OrderIds :
       (\E i \in DOMAIN hist[o] : hist[o][i] = STATUS_PAID) => orders[o].status = STATUS_PAID
  /\ \A w \in DOMAIN wh :
       (Returned(w) /\ Verified(w) /\ ~wh[w].found) => (~wh[w].wrote /\ wh[w].resp = RespSuccess)

\* C3 witness: a completion event was delivered before the checkout's order
\* was committed and again after it; the order is PAID.
C3_Witness ==
  \E c \in DOMAIN co : \E w1, w2 \in DOMAIN wh :
    /\ co[c].pc = "done" /\ co[c].resp = RespSession
    /\ wh[w1].ev.session = co[c].session /\ wh[w2].ev.session = co[c].session
    /\ Verified(w1) /\ Returned(w1) /\ wh[w1].issued /\ ~wh[w1].found
    /\ Returned(w2) /\ wh[w2].found /\ wh[w2].wrote
    /\ \E o \in OrdersBySession(co[c].session) : orders[o].status = STATUS_PAID

\* C5: a verified completion event whose session id matches no order is
\* answered with success and the step that handles it changes no order and
\* no line item.
C5_UnknownSessionAcknowledged ==
  [][\A w \in DOMAIN wh :
       (wh[w].pc = "lookup" /\ OrdersBySession(wh[w].ev.session) = {} /\ wh'[w] # wh[w])
       => /\ wh'[w].pc = "done"
          /\ wh'[w].resp = RespSuccess
          /\ orders' = orders
          /\ items' = items]_vars

\* C5 witness: a delivery for a session that matches no order has returned
\* success while the ledger holds another session's PENDING order.
C5_Witness ==
  \E w \in DOMAIN wh :
    /\ Verified(w) /\ Returned(w) /\ ~wh[w].found
    /\ wh[w].resp = RespSuccess
    /\ OrdersBySession(wh[w].ev.session) = {}
    /\ \E o \in OrderIds : orders[o].status = STATUS_PENDING

\* C4 as stated: an order's status changes only from PENDING, to PAID or to
\* FAILED; no step changes the status of a PAID or FAILED order.
C4_Original_TerminalStatuses ==
  [][\A o \in OrderIds :
       orders'[o].status # orders[o].status =>
         /\ orders[o].status = STATUS_PENDING
         /\ orders'[o].status \in {STATUS_PAID, STATUS_FAILED}]_vars

\* C6: order_status is a pure read: the step leaves every order and line
\* item as it was, reports the stored status of the order with the given
\* session id, and reports PENDING with a success status when no order has
\* that session id.
C6_OrderStatusPureRead ==
  [][\A q \in DOMAIN qs :
       (qs[q].pc = "idle" /\ qs'[q].pc = "done") =>
         /\ orders' = orders
         /\ items' = items
         /\ hist' = hist
         /\ LET sid == qs'[q].session_id
                matches == {o \in OrderIds : orders[o].session_id = sid}
            IN sid # NoSession =>
                 /\ qs'[q].resp.status = 200
                 /\ matches = {} => qs'[q].resp.body = STATUS_PENDING
                 /\ \A o \in matches : qs'[q].resp.body = orders[o].status]_vars

\* C6 witness: one query reported the stored PAID of an order the webhook
\* had marked paid, another reported PENDING for a session with no order.
C6_Witness ==
  \E q1, q2 \in DOMAIN qs :
    /\ qs[q1].pc = "done" /\ qs[q2].pc = "done"
    /\ \E o \in OrdersBySession(qs[q1].session_id) :
         hist[o] = <<STATUS_PENDING, STATUS_PAID>> /\ qs[q1].resp = RespStatus(STATUS_PAID)
    /\ qs[q2].session_id # NoSession
    /\ OrdersBySession(qs[q2].session_id) = {}
    /\ qs[q2].resp = RespStatus(STATUS_PENDING)

\* C10 as stated: in either mode a checkout whose session id collides with
\* an existing order's is answered with the 409 conflict, and session ids
\* stay unique across orders, each order keeping its line items.
C10_Original_CollisionIsConflict ==
  /\ \A c \in DOMAIN co :
       (co[c].pc = "done" /\ co[c].collided) => co[c].resp = RespDuplicate
  /\ \A o1, o2 \in OrderIds : orders[o1].session_id = orders[o2].session_id => o1 = o2
  /\ \A o \in OrderIds : {it \in items : it.order = o} # {}

\* ------------------------------------------------------------ carts
\* The current catalog listing: the ids of the first ListLimit products.
Listing == {i \in DOMAIN products : Cardinality({k \in DOMAIN products : k < i}) < ListLimit}

IntLine(l) == IsInt(l.product_id) /\ IsInt(l.quantity)
WellFormedLine(l) == IntLine(l) /\ l.quantity.val >= 0
PositiveLine(l) == IntLine(l) /\ l.quantity.val > 0
ListedLine(l) == IsInt(l.product_id) /\ l.product_id.val \in Listing
PositiveLines(cart) == {i \in DOMAIN cart : PositiveLine(cart[i])}

\* The sum of price_cents * quantity over a set of lines of the cart.
RECURSIVE SumLines(_, _)
SumLines(cart, S) ==
  IF S = {} THEN 0
  ELSE LET i == CHOOSE x \in S : TRUE
       IN products[cart[i].product_id.val].price_cents * cart[i].quantity.val
          + SumLines(cart, S \ {i})

\* A cart of listed products with non-negative quantities, one positive.
ValidCart(cart) ==
  /\ \A i \in DOMAIN cart : WellFormedLine(cart[i]) /\ ListedLine(cart[i])
  /\ PositiveLines(cart) # {}

\* The request of checkout c arrives with a JSON body and is validated in
\* this step.
Arrives(c) == co[c].pc = "idle" /\ co'[c].pc # "idle" /\ ~co'[c].malformed
LedgerUnchanged == orders' = orders /\ items' = items /\ hist' = hist

\* The order a finished checkout wrote for its cart: total and line items.
PersistedAsOrdered(c) ==
  \E o \in OrdersBySession(co[c].session) :
    /\ orders[o].total_cents = SumLines(co[c].cart, PositiveLines(co[c].cart))
    /\ {it \in items : it.order = o}
         = {ItemRow(o, co[c].cart[i].product_id.val, co[c].cart[i].quantity.val) :
              i \in PositiveLines(co[c].cart)}
    /\ Cardinality({it \in items : it.order = o}) = Cardinality(PositiveLines(co[c].cart))

ProviderFailed(c) == co[c].resp \in {RespStripeKeyInvalid, RespStripeError}

\* C7 as stated: a checkout of a valid cart (listed products, non-negative
\* quantities, one positive; the same product may be on several lines)
\* whose provider call did not fail and whose session id is new succeeds,
\* and its order's total is the sum of price * quantity over the positive
\* lines and its line items are those lines.
C7_Original_ValidCartPersisted ==
  \A c \in DOMAIN co :
    (co[c].pc = "done" /\ ValidCart(co[c].cart) /\ ~ProviderFailed(c) /\ ~co[c].collided)
    => (co[c].resp.status = 200 /\ PersistedAsOrdered(c))

\* C8 as stated: a checkout of a cart of integer product ids and
\* non-negative integer quantities that names an unlisted product id on any
\* line, whatever the quantity, is answered with the unknown-product error
\* and writes nothing.
C8_Original_UnlistedAnyQuantityRejected ==
  [][\A c \in DOMAIN co :
       (/\ Arrives(c)
        /\ \A i \in DOMAIN co'[c].cart : WellFormedLine(co'[c].cart[i])
        /\ \E i \in DOMAIN co'[c].cart : ~ListedLine(co'[c].cart[i]))
       => (co'[c].pc = "done" /\ co'[c].resp = RespProductNotFound /\ LedgerUnchanged)]_vars

\* C8 amended: a checkout of a cart that names an unlisted product id on a
\* line with quantity > 0, every earlier line having an integer product id
\* and a non-negative integer quantity, is answered with the unknown-product
\* client error and writes no order and no line item.
C8_UnlistedPositiveLineRejected ==
  [][\A c \in DOMAIN co :
       (/\ Arrives(c)
        /\ \E i \in DOMAIN co'[c].cart :
             /\ PositiveLine(co'[c].cart[i])
             /\ ~ListedLine(co'[c].cart[i])
             /\ \A j \in 1..(i - 1) : WellFormedLine(co'[c].cart[j]))
       => /\ co'[c].pc = "done"
          /\ co'[c].resp = RespProductNotFound
          /\ co'[c].resp.status = 400
          /\ LedgerUnchanged]_vars

\* C8 witness: a checkout naming a listed product and then, with a positive
\* quantity, a product row that exists but is not listed was rejected as
\* unknown, the earlier order still being the only one.
C8_Witness ==
  \E c \in DOMAIN co :
    /\ co[c].pc = "done"
    /\ co[c].resp = RespProductNotFound
    /\ Len(co[c].cart) = 2
    /\ PositiveLine(co[c].cart[1]) /\ ListedLine(co[c].cart[1])
    /\ PositiveLine(co[c].cart[2]) /\ ~ListedLine(co[c].cart[2])
    /\ co[c].cart[2].product_id.val \in DOMAIN products
    /\ Len(orders) = 1

\* C9: a checkout of a cart with no positive-quantity line (the empty list,
\* or lines of integer product ids all with quantity 0) is answered with an
\* empty-cart client error and writes no order and no line item.
C9_EmptyCartRejected ==
  [][\A c \in DOMAIN co :
       (/\ Arrives(c)
        /\ \A i \in DOMAIN co'[c].cart :
             IntLine(co'[c].cart[i]) /\ co'[c].cart[i].quantity.val = 0)
       => /\ co'[c].pc = "done"
          /\ co'[c].resp \in {RespNoItems, RespSelectOne}
          /\ co'[c].resp.status = 400
          /\ LedgerUnchanged]_vars

\* C9 witness: a cart of two zero-quantity lines was rejected as empty, the
\* earlier order still being the only one.
C9_Witness ==
  \E c \in DOMAIN co :
    /\ co[c].pc = "done"
    /\ Len(co[c].cart) = 2
    /\ \A i \in DOMAIN co[c].cart : IntLine(co[c].cart[i]) /\ co[c].cart[i].quantity.val = 0
    /\ co[c].resp = RespSelectOne
    /\ Len(orders) = 1

\* ---------------------------------------------------------------------- C11
ItemSet(ois) == {OrderItem(ois[i].product, ois[i].quantity) : i \in DOMAIN ois}
ItemsIn(o) == {OrderItem(it.product, it.quantity) : it \in {x \in items : x.order = o}}

\* The line items are the complete order_items of a checkout that ran under
\* the session.
CompleteFor(sid, its) ==
  \E c \in DOMAIN co : co[c].session = sid /\ co[c].order_items # <<>>
                       /\ its = ItemSet(co[c].order_items)

\* C11: order creation is all-or-nothing.  In every state of the committed
\* ledger, which is what order_status, stripe_webhook and index read, every
\* order has the complete set of its checkout's line items and every line
\* item belongs to an order; the orders are as many as the checkouts that
\* answered with a session id, so a checkout whose INSERTs failed left no
\* order row; and every order the index page showed had its complete set.
C11_OrderCreationAllOrNothing ==
  /\ \A o \in OrderIds : CompleteFor(orders[o].session_id, ItemsIn(o))
  /\ \A it \in items : it.order \in OrderIds
  /\ Len(orders) = Cardinality({c \in DOMAIN co : co[c].resp.status = 200})
  /\ \A q \in DOMAIN qs : \A r \in qs[q].orders : CompleteFor(r.session_id, r.items)

\* A checkout committed an order of two lines; the index page was rendered
\* while a second checkout was inside its atomic block and showed the first
\* order whole; the second checkout's line items then failed and it left no
\* order.
C11_Witness ==
  /\ Len(orders) = 1
  /\ Cardinality(ItemsIn(1)) = 2
  /\ \E q \in DOMAIN qs : qs[q].pc = "done" /\ qs[q].concurrent
                          /\ Cardinality(qs[q].orders) = 1
  /\ \E c \in DOMAIN co : /\ co[c].pc = "done"
                          /\ RepeatsProduct(co[c].order_items)
                          /\ ~co[c].collided
                          /\ co[c].resp = IntegrityResp
                          /\ OrdersBySession(co[c].session) = {}

\* ---------------------------------------------------------------------- C12
\* C12: when the provider's session-creation call fails (the checkout leaves
\* the call without a session), create_checkout_session answers with a
\* server error (500) and that step leaves orders, line items and status
\* history exactly as they were.
C12_ProviderFailureWritesNothing ==
  [][\A c \in DOMAIN co :
       (co[c].pc = "call" /\ co'[c].pc # "call" /\ co'[c].session = NoSession)
         => /\ co'[c].pc = "done"
            /\ co'[c].resp.status = 500
            /\ ProviderFailed(c)'
            /\ LedgerUnchanged]_vars

\* A checkout's provider call failed with an authentication error beside a
\* rival's committed order, which is still the whole ledger.
C12_Witness ==
  /\ Len(orders) = 1
  /\ \E c \in DOMAIN co : co[c].pc = "done" /\ co[c].resp = RespStripeKeyInvalid
                          /\ co[c].order_items # <<>>
  /\ \A c \in DOMAIN co : co[c].pc = "done"
  /\ Cardinality({it \in items : it.order = 1}) = 2

\* ---------------------------------------------------------------------- C13
EmptyCartResps == {RespNoItems, RespSelectOne}
NegativeLine(l) == IsInt(l.quantity) /\ l.quantity.val < 0
UnlistedLine(l) == IsInt(l.product_id) /\ l.product_id.val \notin Listing

\* A line the loop rejects: product_id or quantity not an integer, quantity
\* negative, or quantity positive and product not listed.
Offending(l) == ~IntLine(l) \/ NegativeLine(l) \/ (PositiveLine(l) /\ UnlistedLine(l))
FirstOffending(cart) ==
  CHOOSE i \in DOMAIN cart : Offending(cart[i]) /\ \A j \in 1..(i - 1) : ~Offending(cart[j])
LineError(l) ==
  IF ~IsInt(l.product_id) THEN RespInvalidProductId
  ELSE IF ~IsInt(l.quantity) \/ l.quantity.val < 0 THEN RespInvalidQuantity
  ELSE RespProductNotFound

\* C13 as stated: EmptyCart, then UnknownProduct, then InvalidQuantity.  A
\* cart of integer lines with no positive-quantity line is answered
\* EmptyCart, and one with an unlisted product id and a negative quantity is
\* answered UnknownProduct.
C13_Original_EmptyThenUnknownThenQuantity ==
  [][\A c \in DOMAIN co :
       (Arrives(c) /\ \A i \in DOMAIN co'[c].cart : IntLine(co'[c].cart[i]))
         => LET cart == co'[c].cart
            IN /\ PositiveLines(cart) = {} => co'[c].resp \in EmptyCartResps
               /\ (/\ PositiveLines(cart) # {}
                   /\ \E i \in DOMAIN cart : UnlistedLine(cart[i])
                   /\ \E i \in DOMAIN cart : NegativeLine(cart[i]))
                    => co'[c].resp = RespProductNotFound]_vars

\* C13: an empty item list is answered EmptyCart before anything else.
\* Otherwise the lines are examined in cart order and the first offending
\* line decides the error, within a line in the order non-integer product
\* id, non-integer or negative quantity, unlisted product (looked up only
\* for a positive quantity).  Only a cart with no offending line and no
\* positive-quantity line is answered EmptyCart, and a cart with neither
\* passes validation.
C13_FirstOffendingLineDecides ==
  [][\A c \in DOMAIN co :
       Arrives(c)
         => LET cart == co'[c].cart
            IN IF cart = <<>> THEN co'[c].resp = RespNoItems
               ELSE IF \E i \in DOMAIN cart : Offending(cart[i])
                 THEN co'[c].resp = LineError(cart[FirstOffending(cart)])
               ELSE IF PositiveLines(cart) = {} THEN co'[c].resp = RespSelectOne
               ELSE co'[c].pc \in {"call", "demo"} /\ co'[c].resp = NoResp]_vars

\* A cart with a negative quantity on a listed product, then a positive
\* quantity of an unlisted product, was answered InvalidQuantity.
C13_Witness ==
  \E c \in DOMAIN co :
    /\ co[c].pc = "done"
    /\ Len(co[c].cart) = 2
    /\ IntLine(co[c].cart[1]) /\ NegativeLine(co[c].cart[1]) /\ ~UnlistedLine(co[c].cart[1])
    /\ PositiveLine(co[c].cart[2]) /\ UnlistedLine(co[c].cart[2])
    /\ co[c].resp = RespInvalidQuantity

\* ---------------------------------------------------------------------- C14
\* Delivery w carried a completion event for the session whose payload
\* parsed and whose signature matched the configured secret, and its status
\* write was committed.
ConfirmedBy(w, sid) ==
  /\ settings.STRIPE_WEBHOOK_SECRET
  /\ wh[w].ev.sig_ok /\ wh[w].ev.parse_ok
  /\ wh[w].ev.type = COMPLETED
  /\ wh[w].ev.session = sid
  /\ wh[w].wrote /\ wh[w].pc = "done"

\* C14: with neither the demo flag set nor the provider key missing, every
\* order was created PENDING, an order is PAID only if a delivery to
\* stripe_webhook of a signature-verified completion event carrying its
\* session id committed the write, and no step of order_status (a step that
\* changes a query) changes an order.
C14_WebhookSoleAuthority ==
  /\ [](~(settings.STRIPE_DEMO_MODE \/ ~settings.STRIPE_KEY_PRESENT)
          => \A o \in OrderIds :
               /\ hist[o][1] = STATUS_PENDING
               /\ orders[o].status = STATUS_PAID
                    => \E w \in DOMAIN wh : ConfirmedBy(w, orders[o].session_id))
  /\ [][qs' # qs => orders' = orders /\ hist' = hist]_vars

\* A provider-mode order created PENDING is PAID after a verified delivery
\* for its session, and a status query has reported it PAID.
C14_Witness ==
  /\ ~settings.STRIPE_DEMO_MODE /\ settings.STRIPE_KEY_PRESENT
  /\ \E o \in OrderIds :
       /\ hist[o] = <<STATUS_PENDING, STATUS_PAID>>
       /\ \E w \in DOMAIN wh : ConfirmedBy(w, orders[o].session_id)
       /\ \E q \in DOMAIN qs : /\ qs[q].session_id = orders[o].session_id
                               /\ qs[q].resp = RespStatus(STATUS_PAID)

\* ---------------------------------------------------------------------- C15
\* Delivery w arrives in this step.
Delivered(w) == wh[w].pc = "idle" /\ wh'[w].pc # "idle"
Authentic(ev) == settings.STRIPE_WEBHOOK_SECRET /\ ev.sig_ok /\ ev.parse_ok

\* C15: a delivery of a signature-verified event whose type is not
\* 'checkout.session.completed' is answered with the success acknowledgment
\* in the step it arrives, and that step leaves orders, line items and
\* status history unchanged; such a delivery never looks an order up or
\* writes one.
C15_OtherEventTypesAcknowledged ==
  /\ [][\A w \in DOMAIN wh :
          (Delivered(w) /\ Authentic(wh'[w].ev) /\ wh'[w].ev.type # COMPLETED)
            => /\ wh'[w].pc = "done"
               /\ wh'[w].resp = RespSuccess
               /\ LedgerUnchanged]_vars
  /\ [](\A w \in DOMAIN wh :
          (wh[w].pc # "idle" /\ wh[w].ev.type # COMPLETED)
            => ~wh[w].found /\ ~wh[w].wrote)

\* A verified event of another type, carrying the session id of an order
\* that is PENDING, was acknowledged; the order is still PENDING.
C15_Witness ==
  \E w \in DOMAIN wh : \E o \in OrderIds :
    /\ wh[w].pc = "done"
    /\ Authentic(wh[w].ev) /\ wh[w].ev.type = OTHER_EVENT
    /\ wh[w].resp = RespSuccess
    /\ orders[o].session_id = wh[w].ev.session
    /\ hist[o] = <<STATUS_PENDING>>

\* ---------------------------------------------------------------------- C16
\* C16: a delivery that fails authentication is answered in the step it
\* arrives and that step leaves the ledger unchanged: with no webhook secret
\* configured the answer is the configuration error (500) whatever the
\* signature; with a secret, a signature that does not match is answered
\* InvalidSignature (400) and a body that cannot be parsed MalformedPayload
\* (400).  Such a delivery never looks an order up or writes one.
C16_UnauthenticatedDeliveryRejected ==
  /\ [][\A w \in DOMAIN wh :
          (Delivered(w) /\ ~Authentic(wh'[w].ev))
            => /\ wh'[w].pc = "done"
               /\ LedgerUnchanged
               /\ wh'[w].resp =
                    IF ~settings.STRIPE_WEBHOOK_SECRET THEN RespNoSecret
                    ELSE IF ~wh'[w].ev.sig_ok THEN RespInvalidSignature
                    ELSE RespInvalidPayload
               /\ wh'[w].resp.status = IF settings.STRIPE_WEBHOOK_SECRET THEN 400 ELSE 500]_vars
  /\ [](\A w \in DOMAIN wh :
          (wh[w].pc # "idle" /\ ~Authentic(wh[w].ev))
            => ~wh[w].found /\ ~wh[w].wrote)

\* A completion event with a bad signature, naming the session of a PENDING
\* order, was answered InvalidSignature with a secret configured; the order
\* is still PENDING.
C16_Witness ==
  \E w \in DOMAIN wh : \E o \in OrderIds :
    /\ wh[w].pc = "done"
    /\ settings.STRIPE_WEBHOOK_SECRET
    /\ ~wh[w].ev.sig_ok /\ wh[w].ev.type = COMPLETED
    /\ wh[w].resp = RespInvalidSignature
    /\ orders[o].session_id = wh[w].ev.session
    /\ hist[o] = <<STATUS_PENDING>>

\* ---------------------------------------------------------------------- C17
\* C17: in every reachable state each order has at most one line item per
\* product, and every line item belongs to an order, has a strictly
\* positive quantity and references a product of the listing (the first
\* three products by id, which no checkout changes).
C17_LineItemsWellFormed ==
  \A it \in items :
    /\ it.order \in OrderIds
    /\ it.quantity > 0
    /\ it.product \in Listing
    /\ \A jt \in items : (jt.order = it.order /\ jt.product = it.product) => jt = it

\* A cart naming the same product id on two lines, one with quantity zero,
\* was checked out after an earlier order: its order has the one line item.
C17_Witness ==
  \E c \in DOMAIN co :
    /\ co[c].pc = "done" /\ co[c].resp.status = 200
    /\ Len(co[c].cart) = 2
    /\ co[c].cart[1].product_id = co[c].cart[2].product_id
    /\ Len(orders) = 2
    /\ Cardinality({it \in items : it.order = 2}) = 1
    /\ Cardinality({it \in items : it.order = 1}) = 2

\* ---------------------------------------------------------------------- C18
\* C18: every step leaves each existing order's session_id and total_cents
\* and its set of line items unchanged and removes no order; a step that
\* changes an order's status is the commit of a delivery for that order's
\* session id, takes it from PENDING to PAID, and leaves every other order
\* as it was.
C18_OrderFrame ==
  [][\A o \in OrderIds :
       /\ o <= Len(orders')
       /\ orders'[o].session_id = orders[o].session_id
       /\ orders'[o].total_cents = orders[o].total_cents
       /\ {it \in items' : it.order = o} = {it \in items : it.order = o}
       /\ orders'[o].status # orders[o].status
            => /\ orders[o].status = STATUS_PENDING /\ orders'[o].status = STATUS_PAID
               /\ \E w \in DOMAIN wh : /\ wh[w].pc = "saved" /\ wh'[w].pc = "done"
                                       /\ wh[w].ev.session = orders[o].session_id
               /\ Len(orders') = Len(orders)
               /\ \A n \in OrderIds \ {o} : orders'[n] = orders[n]]_vars

\* Two orders, both created PENDING: a delivery for the second order's
\* session marked it PAID, and the first is as it was created.
C18_Witness ==
  /\ Len(orders) = 2
  /\ hist[1] = <<STATUS_PENDING>>
  /\ hist[2] = <<STATUS_PENDING, STATUS_PAID>>
  /\ orders[1] = OrderRow(EarlierSession, STATUS_PENDING,
                          ValidateCart(ScenarioCart, allowed_by_id).total_cents)
  /\ Cardinality({it \in items : it.order = 1}) = 2
  /\ \A w \in DOMAIN wh : wh[w].pc = "done"

\* ---------------------------------------------------------------------- C19
RowsNamed(P, name) == {p \in DOMAIN P : P[p].name = name}

\* C19: every run of the seeding command leaves each fixed product on
\* exactly one row with its fixed price, keeps the id of every fixed
\* product it found (the upsert is by name), deletes no product that a line
\* item references, and touches no order or line item; a run that follows
\* another run leaves the product table (ids, names, prices) as it found it.
C19_SeedIdempotentAndSafe ==
  [][seeds' # seeds
       => /\ \A i \in DOMAIN desired :
               /\ Cardinality(RowsNamed(products', desired[i].name)) = 1
               /\ \A p \in RowsNamed(products', desired[i].name) :
                    products'[p].price_cents = desired[i].price_cents
               /\ RowsNamed(products, desired[i].name) \subseteq RowsNamed(products', desired[i].name)
          /\ \A it \in items : /\ it.product \in DOMAIN products'
                               /\ products'[it.product].name = products[it.product].name
          /\ items' = items /\ orders' = orders
          /\ seeds # <<>> => products' = products]_vars

\* Two runs.  The first found a stale price on the first fixed product, a
\* fixed product missing, an extra product that a line item references and
\* an extra product that none references; it kept the referenced one and
\* deleted the other.  The second run changed nothing.
C19_Witness ==
  /\ Len(seeds) = 2
  /\ seeds[2] = products
  /\ \E p \in DOMAIN seeds[1] : seeds[1][p] = StaleProduct
  /\ \E i \in DOMAIN desired : RowsNamed(seeds[1], desired[i].name) = {}
  /\ \E p \in referenced_ids : p \in DOMAIN products /\ products[p] = ExtraProduct
  /\ \E p \in DOMAIN seeds[1] : seeds[1][p] = ExtraProduct /\ p \notin DOMAIN products

\* ---------------------------------------------------------------------- C20
\* The cart passed validation: every line has an integer product id and a
\* non-negative integer quantity, every positive-quantity line names a
\* listed product, and one line has a positive quantity.
PassedValidation(cart) ==
  /\ \A i \in DOMAIN cart : WellFormedLine(cart[i])
  /\ \A i \in PositiveLines(cart) : ListedLine(cart[i])
  /\ PositiveLines(cart) # {}

\* C20: a checkout makes the provider's session-creation call at most once,
\* in a step taken from the call point after validation, and only for a
\* JSON body whose cart passed validation; a checkout answered with a
\* client error (400: empty cart, invalid product id, invalid quantity,
\* unknown product, malformed JSON) made no call; with the demo flag set or
\* no provider key no call is made and the order of a successful checkout
\* was created PAID.
C20_ProviderCalledOnceAfterValidation ==
  /\ [](\A c \in DOMAIN co :
          /\ co[c].calls <= 1
          /\ co[c].calls = 1 => ~co[c].malformed /\ PassedValidation(co[c].cart)
          /\ co[c].resp.status = 400 => co[c].calls = 0
          /\ (settings.STRIPE_DEMO_MODE \/ ~settings.STRIPE_KEY_PRESENT)
               => /\ co[c].calls = 0
                  /\ co[c].resp.status = 200
                       => \E o \in OrdersBySession(co[c].session) : hist[o] = <<STATUS_PAID>>)
  /\ [][\A c \in DOMAIN co :
          co'[c].calls # co[c].calls => co[c].pc = "call" /\ co'[c].calls = co[c].calls + 1]_vars

\* In provider mode a cart with a zero-quantity line and a positive line
\* was checked out with one provider call.
C20_Witness ==
  \E c \in DOMAIN co :
    /\ ~settings.STRIPE_DEMO_MODE /\ settings.STRIPE_KEY_PRESENT
    /\ co[c].pc = "done" /\ co[c].resp = RespSession
    /\ co[c].calls = 1
    /\ Len(co[c].cart) = 2
    /\ \E i \in DOMAIN co[c].cart : co[c].cart[i].quantity = IntVal(0)
    /\ Len(co[c].order_items) = 1

====
